---- MODULE Spec2Model ----
(***************************************************************************)
(* A model of pong-rs (src/src/main.rs): the five gameplay systems that    *)
(* main registers with the Bevy scheduler (move_paddle, detect_reset,      *)
(* ball_hit in Update; reset_ball, score in PostUpdate), the entities the  *)
(* Startup systems spawn, the GameEvents queue and the Score resource.     *)
(*                                                                         *)
(* The engine is the environment: at the start of every frame it supplies  *)
(* the keyboard state, the frame's delta time, the outcome of the random   *)
(* draw, and the result of the physics step (the ball's position and       *)
(* velocity and the iteration order of its CollidingEntities).             *)
(*                                                                         *)
(* Lengths are world units and delta times are counted in quarters of a    *)
(* second, so that 100. * delta_seconds (25 units per quarter) and every   *)
(* sum the code forms is an integer that f32 represents exactly: the       *)
(* arithmetic of the model is the arithmetic of the code on these inputs.  *)
(***************************************************************************)
EXTENDS Integers, Sequences, FiniteSets, TLC

VARIABLES
    paddleY,     \* paddle entity -> Transform.translation.y
    ball,        \* the ball: [pos: <<x, y, z>>, vel: <<vx, vy>>, color]
    hits,        \* the ball's CollidingEntities, in iteration order
    score,       \* Score.0 : a map Player -> i32, keys inserted on demand
    score_text,  \* the (Text, Player) entities, in query order
    events,      \* Events<GameEvents> sent in this frame
    cursor,      \* EventReader cursor of reset_ball and of score
    input,       \* ButtonInput<KeyCode>, Time (in quarter seconds), thread_rng
    stage,       \* the schedule being run: Update, PostUpdate; FrameEnd, Idle
    ran,         \* the systems of that schedule that have run this frame
    seen,        \* history: the events each reader has been handed
    frame0       \* history: the state the frame started from

vars == <<paddleY, ball, hits, score, score_text, events, cursor, input,
          stage, ran, seen, frame0>>

(***************************************************************************)
(* Bounds of the model.                                                    *)
(***************************************************************************)
\* A session is followed until a player has this many points.
MaxScore == 2
\* The ball overlaps at most this many entities at once.
MaxHits == 2

(***************************************************************************)
(* Program constants.                                                      *)
(***************************************************************************)
WINDOW_WIDTH == 1280
WINDOW_HIGHT == 720
\* Collider::cuboid(5., 75.) and the literal 75. of the clamp.
PADDLE_HALF_HEIGHT == 75
\* the 100. of 100. * time.delta_seconds()
PADDLE_SPEED == 100
\* Velocity::linear(Vec2::new(100., 0.))
START_SPEED == 100
\* i32::MAX, of Score(HashMap<Player, i32>)
I32_MAX == 2147483647

Player == {"Player1", "Player2"}

start_speed(player) ==
    IF player = "Player1" THEN <<START_SPEED, 0>> ELSE <<-START_SPEED, 0>>

get_color(player) ==
    IF player = "Player1" THEN "RED" ELSE "GREEN"

(***************************************************************************)
(* The entities of the scene and their components.  Player = "None" and    *)
(* Paddle = <<>> stand for an entity without that component.               *)
(***************************************************************************)
spawn_border ==
    [ BorderTop    |-> [x |-> 0, y |-> WINDOW_HIGHT \div 2,
                        Player |-> "None", Sensor |-> FALSE, Paddle |-> <<>>],
      BorderBottom |-> [x |-> 0, y |-> -(WINDOW_HIGHT \div 2),
                        Player |-> "None", Sensor |-> FALSE, Paddle |-> <<>>],
      GoalRight    |-> [x |-> WINDOW_WIDTH \div 2, y |-> 0,
                        Player |-> "Player1", Sensor |-> TRUE, Paddle |-> <<>>],
      GoalLeft     |-> [x |-> -(WINDOW_WIDTH \div 2), y |-> 0,
                        Player |-> "Player2", Sensor |-> TRUE, Paddle |-> <<>>] ]

spawn_players ==
    [ PaddleLeft  |-> [x |-> -(WINDOW_WIDTH \div 2) + 20, y |-> 0,
                       Player |-> "Player1", Sensor |-> FALSE,
                       Paddle |-> <<[move_up |-> "KeyW", move_down |-> "KeyS"]>>],
      PaddleRight |-> [x |-> (WINDOW_WIDTH \div 2) - 20, y |-> 0,
                       Player |-> "Player2", Sensor |-> FALSE,
                       Paddle |-> <<[move_up |-> "ArrowUp", move_down |-> "ArrowDown"]>>] ]

spawn_ball ==
    [pos |-> <<0, 0, 1>>, vel |-> <<100, 0>>, color |-> "WHITE"]

spawn_score ==
    << [owner |-> "Player1", value |-> "0"],
       [owner |-> "Player2", value |-> "0"] >>

Paddles == DOMAIN spawn_players
Colliders == DOMAIN spawn_border \cup DOMAIN spawn_players

Components(e) ==
    IF e \in DOMAIN spawn_border THEN spawn_border[e] ELSE spawn_players[e]

\* Query<&Player, With<Sensor>>::get
goals_get(e) ==
    IF Components(e).Player # "None" /\ Components(e).Sensor
    THEN Components(e).Player ELSE "Err"

\* A query for &Player alone, without the With<Paddle> filter.
paddles_get_any(e) ==
    IF Components(e).Player # "None" THEN Components(e).Player ELSE "Err"

\* Query<&Player, With<Paddle>>::get
paddles_get(e) ==
    IF Components(e).Player # "None" /\ Components(e).Paddle # <<>>
    THEN Components(e).Player ELSE "Err"

(***************************************************************************)
(* GameEvents.                                                             *)
(***************************************************************************)
ResetBall(player) == [type |-> "ResetBall", player |-> player]
GainPoint(player) == [type |-> "GainPoint", player |-> player]

Readers == {"reset_ball", "score"}

\* What EventReader::read hands a reader whose cursor is cur.
Unread(evs, cur) == SubSeq(evs, cur + 1, Len(evs))

\* One cursor for the queue, shared by the readers: a read drains it.
AdvanceCursorShared(cur, reader, n) == [r \in DOMAIN cur |-> n]

\* The cursors once reader has read up to n: each reader owns its cursor.
AdvanceCursor(cur, reader, n) == [cur EXCEPT ![reader] = n]

(***************************************************************************)
(* move_paddle, for one paddle.                                            *)
(***************************************************************************)
clamp(x, min, max) == IF x < min THEN min ELSE IF x > max THEN max ELSE x

\* 100. * time.delta_seconds(), for a delta of dt quarter seconds
Step(dt) == (PADDLE_SPEED * dt) \div 4

PaddleMin == -(WINDOW_HIGHT \div 2) + PADDLE_HALF_HEIGHT
PaddleMax == (WINDOW_HIGHT \div 2) - PADDLE_HALF_HEIGHT

\* The down branch without its clamp.
MovePaddleYNoClamp(y, up, down, dt) ==
    LET y1 == IF up
              THEN clamp(y + Step(dt), PaddleMin, PaddleMax)
              ELSE y
    IN  IF down THEN y1 - Step(dt) ELSE y1

\* The two branches in the other order.
MovePaddleYDownFirst(y, up, down, dt) ==
    LET y1 == IF down
              THEN clamp(y - Step(dt), PaddleMin, PaddleMax)
              ELSE y
    IN  IF up
        THEN clamp(y1 + Step(dt), PaddleMin, PaddleMax)
        ELSE y1

MovePaddleY(y, up, down, dt) ==
    LET y1 == IF up
              THEN clamp(y + Step(dt), PaddleMin, PaddleMax)
              ELSE y
    IN  IF down
        THEN clamp(y1 - Step(dt), PaddleMin, PaddleMax)
        ELSE y1

(***************************************************************************)
(* ball_hit: the colour of the first paddle in the overlap set.            *)
(***************************************************************************)
RECURSIVE BallHitColor(_, _)
BallHitColor(color, hs) ==
    IF hs = <<>> THEN color
    ELSE IF paddles_get(Head(hs)) # "Err"
         THEN get_color(paddles_get(Head(hs)))
         ELSE BallHitColor(color, Tail(hs))

(***************************************************************************)
(* detect_reset: the events it sends.                                      *)
(***************************************************************************)
\* The events name the player the sensor is not tagged with.
RECURSIVE GoalEventsOther(_)
GoalEventsOther(hs) ==
    IF hs = <<>> THEN <<>>
    ELSE LET player == goals_get(Head(hs))
             other  == IF player = "Player1" THEN "Player2" ELSE "Player1"
         IN  (IF player # "Err"
              THEN <<ResetBall(other), GainPoint(other)>>
              ELSE <<>>) \o GoalEventsOther(Tail(hs))

RECURSIVE GoalEvents(_)
GoalEvents(hs) ==
    IF hs = <<>> THEN <<>>
    ELSE LET player == goals_get(Head(hs))
         IN  (IF player # "Err"
              THEN <<ResetBall(player), GainPoint(player)>>
              ELSE <<>>) \o GoalEvents(Tail(hs))

\* The branch of the reset key without its return.
DetectResetNoReturn(space, rand, hs) ==
    (IF space
     THEN <<ResetBall(IF rand THEN "Player1" ELSE "Player2")>>
     ELSE <<>>) \o GoalEvents(hs)

DetectResetEvents(space, rand, hs) ==
    IF space
    THEN <<ResetBall(IF rand THEN "Player1" ELSE "Player2")>>
    ELSE GoalEvents(hs)

(***************************************************************************)
(* reset_ball: one event, then the events of a read.                       *)
(***************************************************************************)
\* The velocity is set, the translation is not.
ResetBallEventKeepPos(b, ev) ==
    IF ev.type = "ResetBall"
    THEN [b EXCEPT !.vel = start_speed(ev.player)]
    ELSE b

ResetBallEvent(b, ev) ==
    IF ev.type = "ResetBall"
    THEN [b EXCEPT !.pos = <<0, 0, 0>>, !.vel = start_speed(ev.player)]
    ELSE b

RECURSIVE ResetBallRead(_, _)
ResetBallRead(b, evs) ==
    IF evs = <<>> THEN b
    ELSE ResetBallRead(ResetBallEvent(b, Head(evs)), Tail(evs))

(***************************************************************************)
(* score: i32 arithmetic, i32::to_string, one event, the events of a read. *)
(***************************************************************************)
\* x + 1 in an i32: two's complement wrap-around at i32::MAX (a release
\* build; a debug build panics there).
I32_MIN == -I32_MAX - 1
AddOneI32(x) == IF x = I32_MAX THEN I32_MIN ELSE x + 1

Digit == <<"0", "1", "2", "3", "4", "5", "6", "7", "8", "9">>

RECURSIVE to_string(_)
to_string(n) ==
    IF n < 0 THEN "-" \o to_string(-n)
    ELSE IF n < 10 THEN Digit[n + 1]
    ELSE to_string(n \div 10) \o Digit[(n % 10) + 1]

\* score.0.get(player).cloned().unwrap_or(0)
ScoreOf(sc, player) == IF player \in DOMAIN sc THEN sc[player] ELSE 0

\* -= 1 for += 1
ScoreSub(sc, player) ==
    [p \in DOMAIN sc \cup {player} |->
        IF p = player THEN ScoreOf(sc, p) - 1 ELSE sc[p]]

\* *score.0.entry(player).or_default() += 1
ScoreAdd(sc, player) ==
    [p \in DOMAIN sc \cup {player} |->
        IF p = player THEN AddOneI32(ScoreOf(sc, p)) ELSE sc[p]]

\* The scan without its owner test: the first slot gets the text.
SetTextFirst(slots, player, txt) ==
    IF slots = <<>> THEN <<>>
    ELSE <<[Head(slots) EXCEPT !.value = txt]>> \o Tail(slots)

\* The scan of score_text: the first slot owned by player gets the text.
RECURSIVE SetText(_, _, _)
SetText(slots, player, txt) ==
    IF slots = <<>> THEN <<>>
    ELSE IF Head(slots).owner # player
         THEN <<Head(slots)>> \o SetText(Tail(slots), player, txt)
         ELSE <<[Head(slots) EXCEPT !.value = txt]>> \o Tail(slots)

\* Every event counts as a point, not only GainPoint.
ScoreEventAny(st, ev) ==
    LET sc == ScoreAdd(st.score, ev.player)
    IN  [score |-> sc,
         score_text |-> SetText(st.score_text, ev.player,
                                to_string(ScoreOf(sc, ev.player)))]

\* st = [score, score_text]
ScoreEvent(st, ev) ==
    IF ev.type = "GainPoint"
    THEN LET sc == ScoreAdd(st.score, ev.player)
         IN  [score |-> sc,
              score_text |-> SetText(st.score_text, ev.player,
                                     to_string(ScoreOf(sc, ev.player)))]
    ELSE st

RECURSIVE ScoreRead(_, _)
ScoreRead(st, evs) ==
    IF evs = <<>> THEN st
    ELSE ScoreRead(ScoreEvent(st, Head(evs)), Tail(evs))

(***************************************************************************)
(* The schedule: app.add_systems(Update, ..) and (PostUpdate, ..).  The    *)
(* systems of one schedule run in any order; the last one to finish hands  *)
(* over to the next schedule.                                              *)
(***************************************************************************)
Systems ==
    [ Update     |-> {"move_paddle", "detect_reset", "ball_hit"},
      PostUpdate |-> {"reset_ball", "score"} ]

NextStage(s) == IF s = "Update" THEN "PostUpdate" ELSE "FrameEnd"

CanRun(sys) ==
    /\ stage \in DOMAIN Systems
    /\ sys \in Systems[stage] \ ran

Ran(sys) ==
    IF ran \cup {sys} = Systems[stage]
    THEN stage' = NextStage(stage) /\ ran' = {}
    ELSE stage' = stage /\ ran' = ran \cup {sys}

Held(key) == key \in input.pressed

move_paddle ==
    /\ CanRun("move_paddle")
    /\ paddleY' = [e \in Paddles |->
                     MovePaddleY(paddleY[e],
                                 Held(Components(e).Paddle[1].move_up),
                                 Held(Components(e).Paddle[1].move_down),
                                 input.delta_quarters)]
    /\ Ran("move_paddle")
    /\ UNCHANGED <<ball, hits, score, score_text, events, cursor, input,
                   seen, frame0>>

detect_reset ==
    /\ CanRun("detect_reset")
    /\ events' = events \o DetectResetEvents(input.space, input.rand, hits)
    /\ Ran("detect_reset")
    /\ UNCHANGED <<paddleY, ball, hits, score, score_text, cursor, input,
                   seen, frame0>>

ball_hit ==
    /\ CanRun("ball_hit")
    /\ ball' = [ball EXCEPT !.color = BallHitColor(ball.color, hits)]
    /\ Ran("ball_hit")
    /\ UNCHANGED <<paddleY, hits, score, score_text, events, cursor, input,
                   seen, frame0>>

reset_ball ==
    /\ CanRun("reset_ball")
    /\ LET evs == Unread(events, cursor["reset_ball"])
       IN  /\ ball' = ResetBallRead(ball, evs)
           /\ seen' = [seen EXCEPT !["reset_ball"] = @ \o evs]
    /\ cursor' = AdvanceCursor(cursor, "reset_ball", Len(events))
    /\ Ran("reset_ball")
    /\ UNCHANGED <<paddleY, hits, score, score_text, events, input, frame0>>

score_system ==
    /\ CanRun("score")
    /\ LET evs == Unread(events, cursor["score"])
           st  == ScoreRead([score |-> score, score_text |-> score_text], evs)
       IN  /\ score' = st.score
           /\ score_text' = st.score_text
           /\ seen' = [seen EXCEPT !["score"] = @ \o evs]
    /\ cursor' = AdvanceCursor(cursor, "score", Len(events))
    /\ Ran("score")
    /\ UNCHANGED <<paddleY, ball, hits, events, input, frame0>>

(***************************************************************************)
(* The engine between two frames.  end_frame: the frame is over, its       *)
(* inputs and its events (which both readers have read) are dropped.       *)
(* begin_frame: the engine steps the physics (the ball moves, its overlap  *)
(* set is rebuilt) and polls the keyboard, the clock and the generator.    *)
(***************************************************************************)
PaddleKeys == {"KeyW", "KeyS", "ArrowUp", "ArrowDown"}

NoInput ==
    [pressed |-> {}, space |-> FALSE, rand |-> FALSE, delta_quarters |-> 0]

\* Sequences of distinct entities of E, at most n long: the iteration
\* orders of a set of at most n colliding entities.
HitSeqs(E, n) ==
    {s \in UNION {[1..k -> E] : k \in 0..n} :
        \A i, j \in DOMAIN s : s[i] = s[j] => i = j}

AllHits == HitSeqs(Colliders, MaxHits)

\* The points the overlap set hs gives player when no reset key is pressed.
GoalsFor(hs, player) ==
    Cardinality({i \in DOMAIN hs : goals_get(hs[i]) = player})

\* Where the physics step may have taken the ball, and with what velocity.
BallMoves == {[pos |-> <<600, -40>>, vel |-> <<-121, 33>>]}

Snapshot(py, b) ==
    [paddleY |-> py, ball |-> b, score |-> score, score_text |-> score_text]

end_frame ==
    /\ stage = "FrameEnd"
    /\ stage' = "Idle"
    /\ input' = NoInput
    /\ hits' = <<>>
    /\ events' = <<>>
    /\ cursor' = [r \in Readers |-> 0]
    /\ seen' = [r \in Readers |-> <<>>]
    /\ frame0' = Snapshot(paddleY, ball)
    /\ UNCHANGED <<paddleY, ball, score, score_text, ran>>

begin_frame(Pressed, Deltas, Spaces, Hits, Moves) ==
    /\ stage = "Idle"
    /\ \E keys \in Pressed, dt \in Deltas, space \in Spaces, rand \in BOOLEAN,
          hs \in Hits,
          m \in Moves \cup {[pos |-> <<ball.pos[1], ball.pos[2]>>,
                             vel |-> ball.vel]} :
          /\ rand => space
          /\ space \/ \A pl \in Player :
                        ScoreOf(score, pl) + GoalsFor(hs, pl) <= MaxScore
          /\ input' = [pressed |-> keys, space |-> space, rand |-> rand,
                       delta_quarters |-> dt]
          /\ hits' = hs
          /\ ball' = [ball EXCEPT !.pos = <<m.pos[1], m.pos[2], ball.pos[3]>>,
                                  !.vel = m.vel]
          /\ frame0' = Snapshot(paddleY, ball')
    /\ stage' = "Update"
    /\ UNCHANGED <<paddleY, score, score_text, events, cursor, seen, ran>>

Init ==
    /\ paddleY = [e \in Paddles |-> spawn_players[e].y]
    /\ ball = spawn_ball
    /\ hits = <<>>
    /\ score = <<>>
    /\ score_text = spawn_score
    /\ events = <<>>
    /\ cursor = [r \in Readers |-> 0]
    /\ input = NoInput
    /\ stage = "Update"
    /\ ran = {}
    /\ seen = [r \in Readers |-> <<>>]
    /\ frame0 = Snapshot(paddleY, ball)

GameSystems ==
    \/ move_paddle
    \/ detect_reset
    \/ ball_hit
    \/ reset_ball
    \/ score_system
    \/ end_frame

\* Every input: any keys, overlap set and physics outcome, delta times up
\* to 3 seconds.
Next ==
    \/ begin_frame(SUBSET PaddleKeys, 0..12, BOOLEAN, AllHits, BallMoves)
    \/ GameSystems

Spec == Init /\ [][Next]_vars

\* Sessions in which only the paddles are played: any paddle keys, delta
\* times of 0 and of a quarter second, no reset key, nothing touching the
\* ball.
NextPaddle ==
    \/ begin_frame(SUBSET PaddleKeys, {0, 1}, {FALSE}, {<<>>}, {})
    \/ GameSystems

SpecPaddle == Init /\ [][NextPaddle]_vars

\* Sessions in which only the ball is played: any overlap set, physics
\* outcome and reset key, no paddle key held.
NextBall ==
    \/ begin_frame({{}}, {0}, BOOLEAN, AllHits, BallMoves)
    \/ GameSystems

SpecBall == Init /\ [][NextBall]_vars

\* Sessions in which the left paddle is played while the ball is in play,
\* so that every system has work to do in the same frame.  The frames are
\* 3 seconds long (the paddle then has five positions), and the overlap
\* sets hold paddles and goal sensors.
OrderHits == HitSeqs({e \in Colliders : Components(e).Player # "None"}, MaxHits)

NextOrder ==
    \/ begin_frame(SUBSET {"KeyW", "KeyS"}, {12}, BOOLEAN, OrderHits, BallMoves)
    \/ GameSystems

SpecOrder == Init /\ [][NextOrder]_vars

(***************************************************************************)
(* Properties.                                                             *)
(***************************************************************************)
FrameOver == stage = "FrameEnd"

\* The system has run in the current frame.
HasRun(sys) ==
    \/ sys \in ran
    \/ sys \in Systems.Update /\ stage \in {"PostUpdate", "FrameEnd"}
    \/ sys \in Systems.PostUpdate /\ stage = "FrameEnd"

Gains(evs, player) ==
    Cardinality({i \in DOMAIN evs : evs[i] = GainPoint(player)})

IsReset(ev) == ev.type = "ResetBall"

Preset(player) == IF player = "Player1" THEN <<100, 0>> ELSE <<-100, 0>>

BothHeld(e) ==
    /\ Held(Components(e).Paddle[1].move_up)
    /\ Held(Components(e).Paddle[1].move_down)

\* C1: every point-gain event detect_reset sends in a frame is applied by
\* score exactly once in that frame: a player's counter (0 when absent) is
\* its value at the start of the frame plus the number of point-gain events
\* naming that player that score has read, reset events add nothing, and at
\* the end of the frame score has read exactly the events of the frame.
C1_GainAppliedOnce ==
    /\ \A pl \in Player :
          ScoreOf(score, pl) =
              ScoreOf(frame0.score, pl) + Gains(seen["score"], pl)
    /\ FrameOver => seen["score"] = events
    /\ ~HasRun("score") => seen["score"] = <<>>

C1_Witness ==
    /\ FrameOver
    /\ events = <<ResetBall("Player2"), GainPoint("Player2"),
                  ResetBall("Player1"), GainPoint("Player1")>>
    /\ ScoreOf(frame0.score, "Player2") = 1
    /\ ScoreOf(score, "Player2") = 2
    /\ ScoreOf(score, "Player1") = 1

\* C2: once reset_ball has handled a reset event naming P, the ball is at
\* the field centre (0, 0) with P's preset velocity, (100, 0) for Player1
\* and (-100, 0) for Player2, whatever its position and velocity were: this
\* holds after each reset event it reads, and so for the last one when the
\* system has finished.
C2_ResetToCentre ==
    LET read == seen["reset_ball"]
        resets == {k \in DOMAIN read : IsReset(read[k])}
        before == [frame0.ball EXCEPT !.color = ball.color]
    IN  /\ \A k \in resets :
              LET b == ResetBallRead(before, SubSeq(read, 1, k))
              IN  /\ b.pos[1] = 0 /\ b.pos[2] = 0
                  /\ b.vel = Preset(read[k].player)
        /\ resets # {} =>
              LET last == CHOOSE k \in resets : \A j \in resets : j <= k
              IN  /\ ball.pos[1] = 0 /\ ball.pos[2] = 0
                  /\ ball.vel = Preset(read[last].player)

C2_Witness ==
    /\ FrameOver
    /\ frame0.ball.pos[1] = 600
    /\ frame0.ball.vel = <<-121, 33>>
    /\ events = <<ResetBall("Player2"), GainPoint("Player2"),
                  ResetBall("Player1"), GainPoint("Player1")>>
    /\ ball.pos = <<0, 0, 0>>
    /\ ball.vel = <<100, 0>>

\* C3: in every state each paddle's vertical position lies in [-285, 285],
\* the field's half height 360 less the paddle's half height 75.
C3_PaddleInField ==
    \A e \in Paddles : -285 <= paddleY[e] /\ paddleY[e] <= 285

C3_Witness ==
    /\ HasRun("move_paddle")
    /\ input.delta_quarters = 1
    /\ Held("KeyW") /\ Held("ArrowDown")
    /\ frame0.paddleY["PaddleLeft"] = 275 /\ paddleY["PaddleLeft"] = 285
    /\ frame0.paddleY["PaddleRight"] = -275 /\ paddleY["PaddleRight"] = -285

\* C4: a player's score is never negative, and no step lowers it.
C4_ScoreMonotone ==
    /\ [](\A pl \in Player : ScoreOf(score, pl) >= 0)
    /\ [][\A pl \in Player : ScoreOf(score', pl) >= ScoreOf(score, pl)]_vars

C4_Witness ==
    /\ FrameOver
    /\ ScoreOf(frame0.score, "Player1") = 1
    /\ ScoreOf(score, "Player1") = 2
    /\ "Player2" \notin DOMAIN score

\* C5: in every state the text of the score slot tagged P is the decimal
\* rendering of P's counter in the score map, 0 when P has no entry; there
\* is one slot for each player.
C5_TextMirrorsScore ==
    /\ \A i \in DOMAIN score_text :
          score_text[i].value = to_string(ScoreOf(score, score_text[i].owner))
    /\ \A pl \in Player :
          Cardinality({i \in DOMAIN score_text : score_text[i].owner = pl}) = 1

C5_Witness ==
    /\ FrameOver
    /\ events # <<>>
    /\ score = [Player2 |-> 2]
    /\ score_text = << [owner |-> "Player1", value |-> "0"],
                       [owner |-> "Player2", value |-> "2"] >>

\* C6: once ball_hit has run, the ball's tint is the colour of the owner of
\* the first paddle in the overlap set (red for Player1's, green for
\* Player2's) when the set holds a paddle, and the tint the frame started
\* with when it holds none; before ball_hit runs it is the tint the frame
\* started with.  Sensors, borders and events do not change it.
C6_TintFirstPaddle ==
    LET at == {i \in DOMAIN hits : hits[i] \in {"PaddleLeft", "PaddleRight"}}
    IN  ball.color =
            IF HasRun("ball_hit") /\ at # {}
            THEN LET first == CHOOSE i \in at : \A j \in at : i <= j
                 IN  IF hits[first] = "PaddleLeft" THEN "RED" ELSE "GREEN"
            ELSE frame0.ball.color

C6_Witness ==
    /\ FrameOver
    /\ hits = <<"PaddleRight", "PaddleLeft">>
    /\ frame0.ball.color = "RED"
    /\ ball.color = "GREEN"

\* The player who scores in goal g: the one whose paddle is on the other
\* side of the field.
Scorer(g) ==
    CHOOSE pl \in Player :
        \E e \in Paddles :
            /\ spawn_players[e].Player = pl
            /\ spawn_players[e].x * spawn_border[g].x < 0

\* C7: in a frame where Space is not just pressed, the events detect_reset
\* has sent are, for each goal sensor of the overlap set in its order, one
\* reset event then one point-gain event, both naming the scorer: Player1
\* for the sensor at x = 640, Player2 for the sensor at x = -640; there are
\* no other events, so none when the set holds no sensor.
C7_GoalEvents ==
    (HasRun("detect_reset") /\ ~input.space) =>
        LET gs == SelectSeq(hits, LAMBDA e : e \in {"GoalRight", "GoalLeft"})
        IN  /\ Len(events) = 2 * Len(gs)
            /\ \A j \in DOMAIN gs :
                  /\ events[2 * j - 1] = ResetBall(Scorer(gs[j]))
                  /\ events[2 * j] = GainPoint(Scorer(gs[j]))
            /\ spawn_border["GoalRight"].x = 640 /\ Scorer("GoalRight") = "Player1"
            /\ spawn_border["GoalLeft"].x = -640 /\ Scorer("GoalLeft") = "Player2"

C7_Witness ==
    /\ FrameOver
    /\ ~input.space
    /\ hits = <<"GoalLeft", "PaddleLeft">>
    /\ events = <<ResetBall("Player2"), GainPoint("Player2")>>

\* C8: in a frame where Space is just pressed, detect_reset sends exactly
\* one event, a reset event naming the player the generator drew, also when
\* the overlap set holds a goal sensor; at the end of the frame no score
\* and no score text has changed and the ball is at the field centre with
\* that player's preset velocity.
C8_ManualReset ==
    LET chosen == IF input.rand THEN "Player1" ELSE "Player2"
    IN  /\ (HasRun("detect_reset") /\ input.space) =>
              events = <<ResetBall(chosen)>>
        /\ (FrameOver /\ input.space) =>
              /\ \A pl \in Player : ScoreOf(score, pl) = ScoreOf(frame0.score, pl)
              /\ score_text = frame0.score_text
              /\ ball.pos[1] = 0 /\ ball.pos[2] = 0
              /\ ball.vel = Preset(chosen)

C8_Witness ==
    /\ FrameOver
    /\ input.space /\ ~input.rand
    /\ hits = <<"GoalRight">>
    /\ frame0.ball.pos[1] = 600
    /\ ball.vel = <<-100, 0>>
    /\ ScoreOf(score, "Player1") = 1

\* The same frame with Player1 drawn.
C8_WitnessPlayer1 ==
    /\ FrameOver
    /\ input.space /\ input.rand
    /\ ball.vel = <<100, 0>>

\* C9: whatever the order in which the systems of Update and those of
\* PostUpdate ran, the state at the end of the frame is the one the
\* frame's start state, inputs, delta time and overlap set determine, and
\* each event reader has been handed the events of the frame once each, in
\* the order detect_reset sent them.
C9_OrderIndependent ==
    FrameOver =>
        LET sent == DetectResetEvents(input.space, input.rand, hits)
            st   == ScoreRead([score |-> frame0.score,
                               score_text |-> frame0.score_text], sent)
        IN  /\ events = sent
            /\ \A r \in Readers : seen[r] = sent /\ cursor[r] = Len(sent)
            /\ paddleY =
                  [e \in Paddles |->
                      MovePaddleY(frame0.paddleY[e],
                                  Held(Components(e).Paddle[1].move_up),
                                  Held(Components(e).Paddle[1].move_down),
                                  input.delta_quarters)]
            /\ ball =
                  ResetBallRead(
                      [frame0.ball EXCEPT
                          !.color = BallHitColor(frame0.ball.color, hits)],
                      sent)
            /\ score = st.score
            /\ score_text = st.score_text

C9_Witness ==
    /\ FrameOver
    /\ Held("KeyW") /\ ~Held("KeyS")
    /\ paddleY["PaddleLeft"] # frame0.paddleY["PaddleLeft"]
    /\ hits = <<"PaddleRight", "GoalLeft">>
    /\ ~input.space
    /\ ball.color = "GREEN" /\ frame0.ball.color # "GREEN"
    /\ frame0.ball.pos[1] = 600 /\ ball.pos[1] = 0
    /\ ScoreOf(score, "Player2") = ScoreOf(frame0.score, "Player2") + 1

\* C10 as stated: with both keys of a paddle held, move_paddle leaves the
\* paddle where the frame started, for every start position in [-285, 285].
C10_BothKeysCancel ==
    \A e \in Paddles :
        (HasRun("move_paddle") /\ BothHeld(e)) =>
            paddleY[e] = frame0.paddleY[e]

\* C10, amended: with both keys of a paddle held, move_paddle leaves the
\* paddle where the frame started when the up step stays in the field
\* (start + 100*dt <= 285), the lower bound -285 included; otherwise the
\* clamp cuts the up step short and the paddle ends at 285 - 100*dt (not
\* below -285), which is below its start when 0 < 100*dt < 570.
C10_BothKeysClamped ==
    \A e \in Paddles :
        (HasRun("move_paddle") /\ BothHeld(e)) =>
            LET y0 == frame0.paddleY[e]
                d  == 25 * input.delta_quarters
            IN  /\ y0 + d <= 285 => paddleY[e] = y0
                /\ y0 + d > 285 =>
                      /\ paddleY[e] = (IF 285 - d < -285 THEN -285 ELSE 285 - d)
                      /\ (0 < d /\ d < 570) => paddleY[e] < y0

C10_Witness ==
    /\ HasRun("move_paddle")
    /\ BothHeld("PaddleLeft") /\ BothHeld("PaddleRight")
    /\ input.delta_quarters = 1
    /\ frame0.paddleY["PaddleLeft"] = 285 /\ paddleY["PaddleLeft"] = 260
    /\ frame0.paddleY["PaddleRight"] = -285 /\ paddleY["PaddleRight"] = -285
====
